---- MODULE Spec2Model ----
(***************************************************************************)
(* Model of the openevse Home Assistant integration                       *)
(* (custom_components/openevse/__init__.py).                               *)
(*                                                                         *)
(* The specifications share the pure operators below:                      *)
(*   SpecPoll  one coordinator's polling cycle: get_sensors run in a       *)
(*             worker thread, wrapped by _async_update_data, consumed by   *)
(*             the host's refresh;                                         *)
(*   SpecCmd   send_command applied to every command and handler reply;    *)
(*   Spec      the life cycle of one config entry: setup, unload, reload,  *)
(*             option changes, update_listener tasks, polling, and the     *)
(*             worker-thread jobs in flight;                               *)
(*   SpecFair  Spec with the scheduling of the event loop: every listener  *)
(*             task runs, every job a setup awaits ends.                   *)
(* Home Assistant (config entries, DataUpdateCoordinator) and the          *)
(* openevsehttp client are the environment: their steps are the Host*,     *)
(* Poll*, OptionChange and Reload* actions and the drawn outcomes.         *)
(***************************************************************************)
EXTENDS Naturals, Sequences, FiniteSets, TLC

VARIABLES
    \* ---- SpecPoll: one polling cycle of one coordinator
    p_pc,            \* "idle", "running", "returned", "done"
    p_upd,           \* what charger.update() does this cycle: "ok" or an exception
    p_attr,          \* what each charger attribute lookup does: a value or an exception
    p_sensors,       \* outcome of get_sensors
    p_result,        \* outcome of _async_update_data
    p_data,          \* coordinator.data
    p_success,       \* coordinator.last_update_success
    \* ---- SpecCmd: send_command
    s_pc,            \* "call", "done"
    s_command,       \* the command argument
    s_reply,         \* <<cmd, response>> the handler returns
    s_outcome,       \* "None", "InvalidValue", "CommandFailed", or "pending"
    s_calls,         \* number of handler.send_command invocations of this call
    \* ---- Spec: the config entry and the host around it
    data,            \* config_entry.data
    options,         \* config_entry.options
    update_listeners,\* number of registrations of update_listener on the entry
    listenerTasks,   \* update_listener invocations scheduled and not yet run
    entryState,      \* host's state of the entry
    hassData,        \* hass.data[DOMAIN][entry_id]: NoRecord or the coordinator's id
    setupPc,         \* position of async_setup_entry: "idle", "refresh", "firmware"
    setupResult,     \* how the most recent finished setup ended
    unloadedSince,   \* an unload returned True since the last setup finished
    gen,             \* id of the coordinator created by the latest setup
    coordData,       \* that coordinator's data
    firstUpdate,     \* what charger.update() did in that coordinator's first refresh
    firstData,       \* that coordinator's data when its first refresh ended
    timerArmed,      \* that coordinator's refresh timer is scheduled
    jobs,            \* worker-thread jobs whose charger.update() is executing:
                     \* the coordinator's get_sensors, the setup's get_firmware,
                     \* and get_sensors jobs of coordinators since replaced
    platformsLoaded, \* platforms forwarded and not unloaded
    deviceRegistered,\* device registry holds the entry's device
    reloadPc,        \* the running async_reload call: "none", "unload", "setup", "setting_up"
    reloadWaiting,   \* async_reload calls waiting behind the running one
    listenerEnd,     \* data/options seen when the last update_listener invocation ended
    hostSetups,      \* setups started by the host itself (load, retry, re-enable)
    changes,         \* number of option changes so far
    change           \* the latest option change: did it differ from data, reloads since

pollVars == <<p_pc, p_upd, p_attr, p_sensors, p_result, p_data, p_success>>
cmdVars == <<s_pc, s_command, s_reply, s_outcome, s_calls>>
entryVars == <<data, options, update_listeners, listenerTasks, entryState, hassData,
               setupPc, setupResult, unloadedSince, gen, coordData,
               firstUpdate, firstData, timerArmed, jobs, platformsLoaded,
               deviceRegistered, reloadPc, reloadWaiting, listenerEnd, hostSetups,
               changes, change>>
vars == <<pollVars, cmdVars, entryVars>>

----------------------------------------------------------------------------
(* Constants of the program and of the libraries it calls.                 *)

\* Exception classes (all subclasses of Exception) the client library can raise.
CaughtPerSensor == {"RequestException", "ValueError", "KeyError"}
Exceptions == CaughtPerSensor \cup {"AttributeError"}

\* The sensor table of const.py: sensor name -> description.key.
SensorOrder == <<"status", "charge_time", "current_power">>
SensorKeys == {SensorOrder[i] : i \in 1..Len(SensorOrder)}
SENSOR_TYPES ==
    [s \in SensorKeys |->
        CASE s = "status" -> "status"
          [] s = "charge_time" -> "charge_time_elapsed"
          [] OTHER -> "current_power"]
AttrNames == {SENSOR_TYPES[s] : s \in SensorKeys}

PLATFORMS == {"sensor", "select"}

None == "None"
AttrValues == {"v1", "v2"}
NK21 == "$NK^21"

\* dicts are functions; {} is the function with the empty domain
EmptyDict == [k \in {} |-> None]
DictUpdate(d, e) ==
    [k \in DOMAIN d \cup DOMAIN e |-> IF k \in DOMAIN e THEN e[k] ELSE d[k]]
Single(k, v) == [x \in {k} |-> v]

\* outcome of a call: a returned value or a raised exception
Return(v, n) == [kind |-> "return", exc |-> "none", value |-> v, updates |-> n]
Raise(e, n) == [kind |-> "raise", exc |-> e, value |-> EmptyDict, updates |-> n]
NoOutcome == [kind |-> "none", exc |-> "none", value |-> EmptyDict, updates |-> 0]

----------------------------------------------------------------------------
(* get_sensors, lines 151-182.  upd is what charger.update() does, attr    *)
(* what getattr(charger, name) does for each attribute name; the outcome   *)
(* carries the number of charger.update() calls made.                      *)

\* the loop giving up on the first lookup that raises, with nothing to return
RECURSIVE SensorLoop_all_or_nothing(_, _, _)
SensorLoop_all_or_nothing(todo, acc, attr) ==
    IF todo = <<>> THEN Return(acc, 1)
    ELSE LET sensor == Head(todo)
             sensor_property == SENSOR_TYPES[sensor]
         IN  IF sensor = "current_power"
             THEN SensorLoop_all_or_nothing(Tail(todo),
                      DictUpdate(acc, Single(sensor, None)), attr)
             ELSE IF attr[sensor_property] \in AttrValues
             THEN SensorLoop_all_or_nothing(Tail(todo),
                      DictUpdate(acc, Single(sensor, attr[sensor_property])), attr)
             ELSE IF attr[sensor_property] \in CaughtPerSensor
             THEN Return(EmptyDict, 1)
             ELSE Raise(attr[sensor_property], 1)

\* the loop without the special case of current_power
RECURSIVE SensorLoop_no_special_case(_, _, _)
SensorLoop_no_special_case(todo, acc, attr) ==
    IF todo = <<>> THEN Return(acc, 1)
    ELSE LET sensor == Head(todo)
             sensor_property == SENSOR_TYPES[sensor]
         IN  IF attr[sensor_property] \in AttrValues
             THEN SensorLoop_no_special_case(Tail(todo),
                      DictUpdate(acc, Single(sensor, attr[sensor_property])), attr)
             ELSE IF attr[sensor_property] \in CaughtPerSensor
             THEN SensorLoop_no_special_case(Tail(todo), DictUpdate(acc, EmptyDict), attr)
             ELSE Raise(attr[sensor_property], 1)

RECURSIVE SensorLoop(_, _, _)
SensorLoop(todo, acc, attr) ==
    IF todo = <<>> THEN Return(acc, 1)
    ELSE LET sensor == Head(todo)
             sensor_property == SENSOR_TYPES[sensor]
         IN  IF sensor = "current_power"
             THEN SensorLoop(Tail(todo), DictUpdate(acc, Single(sensor, None)), attr)
             ELSE IF attr[sensor_property] \in AttrValues
             THEN SensorLoop(Tail(todo),
                             DictUpdate(acc, Single(sensor, attr[sensor_property])), attr)
             ELSE IF attr[sensor_property] \in CaughtPerSensor
             THEN SensorLoop(Tail(todo), DictUpdate(acc, EmptyDict), attr)
             ELSE Raise(attr[sensor_property], 1)

\* get_sensors letting the exception of charger.update() through
get_sensors_uncaught(upd, attr) ==
    IF upd # "ok" THEN Raise(upd, 1)
    ELSE SensorLoop(SensorOrder, EmptyDict, attr)

get_sensors(upd, attr) ==
    IF upd # "ok" THEN Return(EmptyDict, 1)
    ELSE SensorLoop(SensorOrder, EmptyDict, attr)

\* OpenEVSEUpdateCoordinator._async_update_data, lines 199-207
async_update_data(sensors) ==
    IF sensors.kind = "raise"
    THEN [sensors EXCEPT !.exc = "UpdateFailed"]
    ELSE sensors

\* the host's DataUpdateCoordinator.async_refresh consuming _async_update_data:
\* <<data, last_update_success>> afterwards
async_refresh(oldData, result) ==
    IF result.kind = "raise" THEN <<oldData, FALSE>> ELSE <<result.value, TRUE>>

\* send_command looking at the response before the echoed command
send_command_response_first(command, cmd, response) ==
    [calls |-> 1,
     outcome |-> IF response = NK21 THEN "InvalidValue"
                 ELSE IF cmd = command THEN "None" ELSE "CommandFailed"]

\* send_command, lines 210-218, on the pair <<cmd, response>> its one
\* handler.send_command call returns
send_command(command, cmd, response) ==
    [calls |-> 1,
     outcome |-> IF cmd = command
                 THEN IF response = NK21 THEN "InvalidValue" ELSE "None"
                 ELSE "CommandFailed"]

----------------------------------------------------------------------------
(* SpecPoll: the polling cycle of one coordinator.                         *)

UpdOutcomes == {"ok"} \cup Exceptions
AttrOutcomes == [AttrNames \ {"current_power"} -> AttrValues \cup Exceptions]
AttrOf(f) == [a \in AttrNames |-> IF a \in DOMAIN f THEN f[a] ELSE "v1"]

EntryIdle ==
    /\ data = "cfgA" /\ options = "empty" /\ update_listeners = 0
    /\ listenerTasks = 0 /\ entryState = "not_loaded" /\ hassData = 0
    /\ setupPc = "idle" /\ setupResult = "none" /\ unloadedSince = FALSE
    /\ gen = 0 /\ coordData = EmptyDict
    /\ firstUpdate = "none" /\ firstData = EmptyDict /\ timerArmed = FALSE
    /\ jobs = [sensors |-> FALSE, firmware |-> FALSE, replaced |-> 0]
    /\ platformsLoaded = {} /\ deviceRegistered = FALSE
    /\ reloadPc = "none" /\ reloadWaiting = 0
    /\ listenerEnd = [data |-> "none", options |-> "none"]
    /\ hostSetups = 0 /\ changes = 0
    /\ change = [differs |-> FALSE, reloads |-> 0, listeners |-> 0]

PollIdle ==
    /\ p_pc = "idle" /\ p_upd = "ok" /\ p_attr = AttrOf(<<>>)
    /\ p_sensors = NoOutcome /\ p_result = NoOutcome
    /\ p_data = EmptyDict /\ p_success = TRUE

CmdIdle ==
    /\ s_pc = "done" /\ s_command = "$GS" /\ s_reply = <<"$GS", "$OK^20">>
    /\ s_outcome = "pending" /\ s_calls = 0

\* the refresh timer fires: the host calls _async_update_data, which hands
\* get_sensors to a worker thread (line 202)
PollBegin ==
    /\ p_pc = "idle"
    /\ \E u \in UpdOutcomes, f \in AttrOutcomes :
          /\ p_upd' = u
          /\ p_attr' = AttrOf(f)
    /\ p_pc' = "running"
    /\ p_sensors' = NoOutcome /\ p_result' = NoOutcome
    /\ UNCHANGED <<p_data, p_success, cmdVars, entryVars>>

\* the worker thread runs get_sensors to its end
PollGetSensors ==
    /\ p_pc = "running"
    /\ p_sensors' = get_sensors(p_upd, p_attr)
    /\ p_pc' = "returned"
    /\ UNCHANGED <<p_upd, p_attr, p_result, p_data, p_success, cmdVars, entryVars>>

\* _async_update_data resumes with the job's outcome (lines 205-207)
PollUpdateData ==
    /\ p_pc = "returned"
    /\ p_result' = async_update_data(p_sensors)
    /\ p_pc' = "done"
    /\ UNCHANGED <<p_upd, p_attr, p_sensors, p_data, p_success, cmdVars, entryVars>>

\* the host's refresh stores the outcome in the coordinator
PollFinish ==
    /\ p_pc = "done"
    /\ p_data' = async_refresh(p_data, p_result)[1]
    /\ p_success' = async_refresh(p_data, p_result)[2]
    /\ p_pc' = "idle"
    /\ UNCHANGED <<p_upd, p_attr, p_sensors, p_result, cmdVars, entryVars>>

InitPoll == PollIdle /\ CmdIdle /\ EntryIdle
NextPoll == PollBegin \/ PollGetSensors \/ PollUpdateData \/ PollFinish
SpecPoll == InitPoll /\ [][NextPoll]_vars

----------------------------------------------------------------------------
(* SpecCmd: send_command on every command and every handler reply.         *)

Commands == {"$GS", "$SC 16", "$FE", "$FS"}
Responses == {"$OK^20", NK21, "$NK", ""}

\* a caller picks a command; the handler will answer <<cmd, response>>
CmdCall ==
    /\ s_pc = "done"
    /\ \E c \in Commands, cmd \in Commands, r \in Responses :
          /\ s_command' = c
          /\ s_reply' = <<cmd, r>>
    /\ s_pc' = "call"
    /\ s_outcome' = "pending"
    /\ s_calls' = 0
    /\ UNCHANGED <<pollVars, entryVars>>

\* send_command runs: one handler.send_command call, then the comparison
CmdRun ==
    /\ s_pc = "call"
    /\ s_calls' = s_calls + send_command(s_command, s_reply[1], s_reply[2]).calls
    /\ s_outcome' = send_command(s_command, s_reply[1], s_reply[2]).outcome
    /\ s_pc' = "done"
    /\ UNCHANGED <<s_command, s_reply, pollVars, entryVars>>

InitCmd == PollIdle /\ CmdIdle /\ EntryIdle
NextCmd == CmdCall \/ CmdRun
SpecCmd == InitCmd /\ [][NextCmd]_vars

----------------------------------------------------------------------------
(* Spec: the life cycle of one config entry.                               *)

MaxHostSetups == 2
MaxChanges == 2

NoRecord == 0
ConfigValues == {"cfgA", "cfgB"}

\* outcomes the life cycle draws for a worker-thread job
LifeUpd == {"ok", "RequestException"}
LifeAttr == {AttrOf(<<>>), [AttrOf(<<>>) EXCEPT !["status"] = "AttributeError"]}

\* number of charger.update() calls executing in worker threads
InFlight ==
    (IF jobs.sensors THEN 1 ELSE 0) + (IF jobs.firmware THEN 1 ELSE 0) + jobs.replaced

\* get_firmware, lines 95-108: the pair of versions, or the exception of the
\* attribute lookups of line 108, which are outside the try
get_firmware(upd, fw) ==
    IF upd # "ok" THEN "returned"
    ELSE IF fw = "ok" THEN "returned" ELSE "raised"

\* async_unload_entry, lines 111-129, on the results of the platform unloads
\* async_unload_entry removing the record whatever the platforms returned
async_unload_entry_always_pops(results, record) ==
    [ret |-> \A p \in PLATFORMS : results[p],
     attempted |-> DOMAIN results,
     record |-> NoRecord]

async_unload_entry(results, record) ==
    LET unload_ok == \A p \in PLATFORMS : results[p]
    IN  [ret |-> unload_ok,
         attempted |-> DOMAIN results,
         record |-> IF unload_ok THEN NoRecord ELSE record]

\* update_listener, lines 132-146, up to the await of async_reload
\* update_listener reloading without looking for a change
update_listener_always_reloads(d, o) ==
    [data |-> o, update_entry |-> d # o, reload |-> TRUE]

\* update_listener reloading without bringing data up to date
update_listener_stale_data(d, o) ==
    IF d = o
    THEN [data |-> d, update_entry |-> FALSE, reload |-> FALSE]
    ELSE [data |-> d, update_entry |-> TRUE, reload |-> TRUE]

update_listener(d, o) ==
    IF d = o
    THEN [data |-> d, update_entry |-> FALSE, reload |-> FALSE]
    ELSE [data |-> o, update_entry |-> TRUE, reload |-> TRUE]

\* add_update_listener, line 59: one more registration, the handle dropped
add_update_listener(n) == n + 1

\* the awaited async_reload returns: the update_listener invocation awaiting
\* it ends, and the next waiting reload starts
ReloadReturns ==
    /\ reloadPc' = IF reloadWaiting > 0 THEN "unload" ELSE "none"
    /\ reloadWaiting' = IF reloadWaiting > 0 THEN reloadWaiting - 1 ELSE 0
    /\ listenerEnd' = [data |-> data, options |-> options]

\* async_setup_entry ends: with True, ConfigEntryNotReady or another error
SetupEnds(result) ==
    /\ setupPc' = "idle"
    /\ setupResult' = result
    /\ unloadedSince' = FALSE
    /\ entryState' = CASE result = "True" -> "loaded"
                       [] result = "ConfigEntryNotReady" -> "setup_retry"
                       [] OTHER -> "setup_error"
    /\ IF reloadPc = "setting_up"
       THEN ReloadReturns
       ELSE UNCHANGED <<reloadPc, reloadWaiting, listenerEnd>>

\* async_setup_entry, lines 52-64: register the listener, create the
\* coordinator, start its first refresh in a worker thread
SetupBegins ==
    /\ setupPc = "idle"
    /\ update_listeners' = add_update_listener(update_listeners)
    /\ gen' = gen + 1
    /\ coordData' = EmptyDict
    /\ firstUpdate' = "none" /\ firstData' = EmptyDict
    /\ timerArmed' = FALSE
    /\ jobs' = [sensors |-> TRUE, firmware |-> FALSE,
                replaced |-> jobs.replaced + (IF jobs.sensors THEN 1 ELSE 0)]
    /\ setupPc' = "refresh"

\* the host loads the entry, retries after ConfigEntryNotReady, or re-enables it
HostSetup ==
    /\ entryState \in {"not_loaded", "setup_retry"}
    /\ reloadPc = "none"
    /\ hostSetups < MaxHostSetups
    /\ hostSetups' = hostSetups + 1
    /\ SetupBegins
    /\ UNCHANGED <<data, options, listenerTasks, entryState, hassData, setupResult,
                   unloadedSince, platformsLoaded, deviceRegistered, reloadPc,
                   reloadWaiting, listenerEnd, changes, change, pollVars, cmdVars>>

\* the first refresh ends; async_setup_entry goes on with lines 66-73
SetupRefreshDone ==
    /\ setupPc = "refresh"
    /\ jobs.sensors
    /\ \E u \in LifeUpd, a \in LifeAttr :
          LET result == async_update_data(get_sensors(u, a))
              after == async_refresh(coordData, result)
          IN  /\ firstUpdate' = u
              /\ coordData' = after[1]
              /\ firstData' = after[1]
              /\ IF ~after[2]
                 THEN /\ SetupEnds("ConfigEntryNotReady")
                      /\ jobs' = [jobs EXCEPT !.sensors = FALSE]
                      /\ UNCHANGED hassData
                 ELSE /\ hassData' = gen
                      /\ jobs' = [jobs EXCEPT !.sensors = FALSE, !.firmware = TRUE]
                      /\ setupPc' = "firmware"
                      /\ UNCHANGED <<setupResult, unloadedSince, entryState, reloadPc,
                                     reloadWaiting, listenerEnd>>
    /\ UNCHANGED <<data, options, update_listeners, listenerTasks, gen, timerArmed,
                   platformsLoaded, deviceRegistered, hostSetups, changes, change,
                   pollVars, cmdVars>>

\* get_firmware ends; async_setup_entry goes on with lines 77-92
SetupFirmwareDone ==
    /\ setupPc = "firmware"
    /\ jobs.firmware
    /\ jobs' = [jobs EXCEPT !.firmware = FALSE]
    /\ \E u \in LifeUpd, fw \in {"ok", "KeyError"}, registry \in {"ok", "fails"} :
          IF get_firmware(u, fw) = "raised" \/ registry = "fails"
          THEN /\ SetupEnds("Error")
               /\ UNCHANGED <<deviceRegistered, platformsLoaded, timerArmed>>
          ELSE /\ deviceRegistered' = TRUE
               /\ platformsLoaded' = PLATFORMS
               /\ timerArmed' = TRUE
               /\ SetupEnds("True")
    /\ UNCHANGED <<data, options, update_listeners, listenerTasks, hassData, gen,
                   coordData, firstUpdate, firstData, hostSetups,
                   changes, change, pollVars, cmdVars>>

\* the coordinator's timer fires: one more get_sensors job
PollStart ==
    /\ timerArmed
    /\ ~jobs.sensors
    /\ jobs' = [jobs EXCEPT !.sensors = TRUE]
    /\ timerArmed' = FALSE
    /\ UNCHANGED <<data, options, update_listeners, listenerTasks, entryState,
                   hassData, setupPc, setupResult, unloadedSince, gen, coordData,
                   firstUpdate, firstData, platformsLoaded,
                   deviceRegistered, reloadPc, reloadWaiting, listenerEnd, hostSetups,
                   changes, change, pollVars, cmdVars>>

\* a polling job of the current coordinator ends; the coordinator stores the
\* outcome and, while entities are subscribed, schedules the next refresh
PollDone ==
    /\ jobs.sensors /\ setupPc # "refresh"
    /\ jobs' = [jobs EXCEPT !.sensors = FALSE]
    /\ \E u \in LifeUpd, a \in LifeAttr :
          coordData' = async_refresh(coordData, async_update_data(get_sensors(u, a)))[1]
    /\ timerArmed' = (platformsLoaded # {})
    /\ UNCHANGED <<data, options, update_listeners, listenerTasks, entryState,
                   hassData, setupPc, setupResult, unloadedSince, gen, firstUpdate,
                   firstData, platformsLoaded, deviceRegistered, reloadPc,
                   reloadWaiting, listenerEnd, hostSetups, changes, change,
                   pollVars, cmdVars>>

\* a polling job of a coordinator since replaced ends; nobody reads its outcome
ReplacedPollDone ==
    /\ jobs.replaced > 0
    /\ jobs' = [jobs EXCEPT !.replaced = @ - 1]
    /\ UNCHANGED <<data, options, update_listeners, listenerTasks, entryState,
                   hassData, setupPc, setupResult, unloadedSince, gen, coordData,
                   firstUpdate, firstData, timerArmed, platformsLoaded,
                   deviceRegistered, reloadPc, reloadWaiting, listenerEnd, hostSetups,
                   changes, change, pollVars, cmdVars>>

\* the component's unload on the platform results r: what it leaves behind
Unloads(r) ==
    LET u == async_unload_entry(r, hassData)
    IN  /\ hassData' = u.record
        /\ platformsLoaded' = platformsLoaded \ {p \in u.attempted : r[p]}
        /\ timerArmed' = (timerArmed /\ platformsLoaded' # {})
        /\ unloadedSince' = (unloadedSince \/ u.ret)
        /\ entryState' = IF u.ret THEN "not_loaded" ELSE "failed_unload"

\* the host removes or disables the loaded entry
HostUnload ==
    /\ entryState = "loaded" /\ setupPc = "idle" /\ reloadPc = "none"
    /\ \E r \in [PLATFORMS -> BOOLEAN] : Unloads(r)
    /\ UNCHANGED <<data, options, update_listeners, listenerTasks, setupPc,
                   setupResult, gen, coordData, firstUpdate, firstData,
                   jobs, deviceRegistered, reloadPc, reloadWaiting, listenerEnd,
                   hostSetups, changes, change, pollVars, cmdVars>>

\* the host's async_update_entry(options = v): every registered listener is
\* scheduled as a task
OptionChange ==
    /\ changes < MaxChanges
    /\ \E v \in ConfigValues :
          /\ v # options
          /\ options' = v
          /\ change' = [differs |-> v # data, reloads |-> 0,
                        listeners |-> update_listeners]
    /\ changes' = changes + 1
    /\ listenerTasks' = listenerTasks + update_listeners
    /\ UNCHANGED <<data, update_listeners, entryState, hassData, setupPc, setupResult,
                   unloadedSince, gen, coordData, firstUpdate, firstData,
                   timerArmed, jobs, platformsLoaded, deviceRegistered, reloadPc,
                   reloadWaiting, listenerEnd, hostSetups, pollVars, cmdVars>>

\* one scheduled update_listener task runs up to its return or its await
ListenerRun ==
    /\ listenerTasks > 0
    /\ LET l == update_listener(data, options)
       IN  /\ data' = l.data
           /\ listenerTasks' = listenerTasks - 1
                               + (IF l.update_entry /\ l.data # data
                                  THEN update_listeners ELSE 0)
           /\ IF l.reload
              THEN /\ change' = [change EXCEPT !.reloads = @ + 1]
                   /\ IF reloadPc = "none"
                      THEN reloadPc' = "unload" /\ UNCHANGED reloadWaiting
                      ELSE reloadWaiting' = reloadWaiting + 1 /\ UNCHANGED reloadPc
                   /\ UNCHANGED listenerEnd
              ELSE /\ listenerEnd' = [data |-> l.data, options |-> options]
                   /\ UNCHANGED <<change, reloadPc, reloadWaiting>>
    /\ UNCHANGED <<options, update_listeners, entryState, hassData, setupPc,
                   setupResult, unloadedSince, gen, coordData,
                   firstUpdate, firstData, timerArmed, jobs, platformsLoaded,
                   deviceRegistered, hostSetups, changes, pollVars, cmdVars>>

\* async_reload, first half: the host unloads the entry.  A loaded entry is
\* unloaded by the component; an entry that is not loaded needs no unload; an
\* entry whose unload failed cannot be reloaded.
ReloadUnload ==
    /\ reloadPc = "unload" /\ setupPc = "idle"
    /\ CASE entryState = "loaded" ->
              /\ \E r \in [PLATFORMS -> BOOLEAN] :
                    /\ Unloads(r)
                    /\ IF async_unload_entry(r, hassData).ret
                       THEN /\ reloadPc' = "setup"
                            /\ UNCHANGED <<reloadWaiting, listenerEnd>>
                       ELSE ReloadReturns
         [] entryState = "failed_unload" ->
              /\ ReloadReturns
              /\ UNCHANGED <<hassData, platformsLoaded, timerArmed, unloadedSince,
                             entryState>>
         [] OTHER ->
              /\ entryState' = "not_loaded"
              /\ reloadPc' = "setup"
              /\ UNCHANGED <<hassData, platformsLoaded, timerArmed, unloadedSince,
                             reloadWaiting, listenerEnd>>
    /\ UNCHANGED <<data, options, update_listeners, listenerTasks, setupPc,
                   setupResult, gen, coordData, firstUpdate, firstData,
                   jobs, deviceRegistered, hostSetups, changes, change, pollVars,
                   cmdVars>>

\* async_reload, second half: the host sets the entry up again
ReloadSetup ==
    /\ reloadPc = "setup"
    /\ reloadPc' = "setting_up"
    /\ SetupBegins
    /\ UNCHANGED <<data, options, listenerTasks, entryState, hassData, setupResult,
                   unloadedSince, platformsLoaded, deviceRegistered, reloadWaiting,
                   listenerEnd, hostSetups, changes, change, pollVars, cmdVars>>

Init == PollIdle /\ CmdIdle /\ EntryIdle
Next ==
    \/ HostSetup \/ SetupRefreshDone \/ SetupFirmwareDone
    \/ PollStart \/ PollDone \/ ReplacedPollDone
    \/ HostUnload
    \/ OptionChange \/ ListenerRun
    \/ ReloadUnload \/ ReloadSetup
Spec == Init /\ [][Next]_vars

----------------------------------------------------------------------------
(* Properties.                                                             *)

PollRan == p_pc \in {"returned", "done"}
Lookup(s) == p_attr[SENSOR_TYPES[s]]
LookedUp == SensorKeys \ {"current_power"}

\* C1: in a polling cycle, charger.update() raising makes get_sensors return
\* {}; whatever get_sensors raises leaves _async_update_data as UpdateFailed
\* and as nothing else; charger.update() is called exactly once per cycle.
C1_NoEscape ==
    PollRan =>
        /\ p_upd # "ok" => p_sensors = Return(EmptyDict, 1)
        /\ p_sensors.updates = 1
        /\ p_pc = "done" =>
              /\ p_sensors.kind = "raise" =>
                    p_result.kind = "raise" /\ p_result.exc = "UpdateFailed"
              /\ p_result.kind = "raise" => p_result.exc = "UpdateFailed"
              /\ p_sensors.kind = "return" => p_result = p_sensors
              /\ p_result.updates = 1

\* a cycle whose update() raised ended with {}, after an earlier cycle ended
\* as UpdateFailed
C1_Witness ==
    /\ p_pc = "done" /\ p_upd \in Exceptions
    /\ p_result = Return(EmptyDict, 1)
    /\ p_success = FALSE

\* C5 as stated: the dict get_sensors returns is empty or has every key of
\* SENSOR_TYPES.
C5_Original ==
    (PollRan /\ p_sensors.kind = "return") =>
        \/ DOMAIN p_sensors.value = {}
        \/ DOMAIN p_sensors.value = SensorKeys

\* C5 amended: the dict get_sensors returns is empty (update() raised) or has
\* every key of SENSOR_TYPES except those whose attribute lookup raised
\* RequestException, ValueError or KeyError.
C5_Amended ==
    (PollRan /\ p_sensors.kind = "return") =>
        \/ p_upd # "ok" /\ DOMAIN p_sensors.value = {}
        \/ /\ p_upd = "ok"
           /\ DOMAIN p_sensors.value =
                 SensorKeys \ {s \in LookedUp : Lookup(s) \in CaughtPerSensor}

\* a returned dict that holds some sensors and omits another
C5_Witness ==
    /\ PollRan /\ p_sensors.kind = "return"
    /\ "charge_time" \in DOMAIN p_sensors.value
    /\ "status" \notin DOMAIN p_sensors.value

\* C8: after a successful update(), every key of the returned dict is a key
\* of SENSOR_TYPES, its value is the charger attribute SENSOR_TYPES[k].key
\* (None for current_power, always present), and exactly the sensors whose
\* lookup raised RequestException, ValueError or KeyError are absent.
C8_PassThrough ==
    (PollRan /\ p_upd = "ok" /\ p_sensors.kind = "return") =>
        LET d == p_sensors.value
        IN  /\ DOMAIN d \subseteq SensorKeys
            /\ \A k \in DOMAIN d \ {"current_power"} : d[k] = Lookup(k)
            /\ "current_power" \in DOMAIN d /\ d["current_power"] = None
            /\ \A s \in LookedUp :
                  /\ Lookup(s) \in CaughtPerSensor => s \notin DOMAIN d
                  /\ Lookup(s) \in AttrValues => s \in DOMAIN d

\* a returned dict with a value passed through under another name, a sensor
\* dropped, and current_power None although the charger has the attribute
C8_Witness ==
    /\ PollRan /\ p_upd = "ok" /\ p_sensors.kind = "return"
    /\ "charge_time" \in DOMAIN p_sensors.value
    /\ p_sensors.value["charge_time"] = "v2"
    /\ "status" \notin DOMAIN p_sensors.value
    /\ p_attr["current_power"] = "v1"

\* C3: send_command raises CommandFailed iff cmd # command, raises
\* InvalidValue iff cmd = command and the response is "$NK^21", returns None
\* iff cmd = command and the response is anything else; it calls the handler
\* exactly once.
C3_Outcomes ==
    (s_pc = "done" /\ s_outcome # "pending") =>
        LET cmd == s_reply[1]
            response == s_reply[2]
        IN  /\ s_outcome \in {"CommandFailed", "InvalidValue", "None"}
            /\ s_outcome = "CommandFailed" <=> cmd # s_command
            /\ s_outcome = "InvalidValue" <=> (cmd = s_command /\ response = NK21)
            /\ s_outcome = "None" <=> (cmd = s_command /\ response # NK21)
            /\ s_calls = 1

\* a call that raised InvalidValue
C3_Witness ==
    /\ s_pc = "done" /\ s_outcome = "InvalidValue"
    /\ s_reply = <<s_command, NK21>>

\* C2 as stated: a setup that returned True left a coordinator whose first
\* refresh saw update() succeed and stored a non-empty dict, and a first
\* refresh whose update() raised ended the setup with ConfigEntryNotReady.
C2_Claim ==
    (setupPc = "idle" /\ setupResult # "none") =>
        /\ setupResult = "True" =>
              firstUpdate = "ok" /\ DOMAIN firstData # {}
        /\ firstUpdate \in Exceptions => setupResult = "ConfigEntryNotReady"

\* C6 as stated: across the initial setup, periodic polling and the reloads
\* that option changes cause, at most one charger.update() call executes in a
\* worker thread at any moment.
C6_Claim == hostSetups <= 1 => InFlight <= 1

\* C9 as stated: between setups, hass.data holds a coordinator record iff the
\* most recent setup returned True and no unload returned True since.
C9_Claim ==
    setupPc = "idle" =>
        (hassData # NoRecord <=> (setupResult = "True" /\ ~unloadedSince))

\* the component's async_unload_entry ran on the platform results r
UnloadRan(r) ==
    /\ entryState = "loaded"
    /\ HostUnload \/ ReloadUnload
    /\ Unloads(r)

\* C7: async_unload_entry attempts every platform, returns True iff every
\* platform unload returned True, removes the record iff it returns True, and
\* otherwise leaves the record as it was although the platforms that returned
\* True are unloaded.
C7_Unload ==
    [][\A r \in [PLATFORMS -> BOOLEAN] :
          UnloadRan(r) =>
              LET all_ok == \A p \in PLATFORMS : r[p]
              IN  /\ entryState' = (IF all_ok THEN "not_loaded" ELSE "failed_unload")
                  /\ unloadedSince' = (unloadedSince \/ all_ok)
                  /\ hassData' = NoRecord <=> all_ok
                  /\ ~all_ok => hassData' = hassData
                  /\ platformsLoaded' = {p \in platformsLoaded : ~r[p]}]_vars

\* an unload that returned False: one platform gone, the record still there
C7_Witness ==
    /\ entryState = "failed_unload"
    /\ hassData # NoRecord
    /\ platformsLoaded # {} /\ platformsLoaded # PLATFORMS

PendingReloads == (IF reloadPc = "none" THEN 0 ELSE 1) + reloadWaiting

\* C4 as stated: every update_listener invocation that has ended, ended with
\* data equal to options.
C4_Original == listenerEnd.data = listenerEnd.options

\* C4 amended: every update_listener invocation has data equal to options
\* when it returns early or suspends on the await of async_reload; with data
\* equal to options on entry it notifies nobody, requests no reload and
\* leaves the entry unchanged, otherwise it sets data to the options and
\* requests one reload.  (When the awaited reload returns, the options may
\* have changed again.)
C4_Amended ==
    [][ListenerRun =>
          /\ data' = options'
          /\ data = options =>
                /\ data' = data /\ options' = options
                /\ listenerTasks' = listenerTasks - 1
                /\ PendingReloads' = PendingReloads
                /\ listenerEnd' = [data |-> data, options |-> options]
          /\ data # options =>
                /\ data' = options /\ options' = options
                /\ PendingReloads' = PendingReloads + 1]_vars

\* an invocation has set data to the options and awaits its reload
C4_Witness ==
    /\ change.reloads = 1 /\ reloadPc = "unload"
    /\ data = options /\ data = "cfgB"

Quiescent == listenerTasks = 0 /\ PendingReloads = 0

\* C10 as stated: update_listener is registered at most once, and one change
\* of the options has led to exactly one async_reload once no listener task
\* and no reload is left.
C10_Original ==
    /\ update_listeners <= 1
    /\ (changes > 0 /\ change.listeners >= 1 /\ Quiescent) => change.reloads = 1

\* C10 amended, the counts: whatever the number of registrations (one per setup attempt,
\* none ever removed), a change of the options made while at least one is
\* registered leads to at most one async_reload, and once no listener task
\* and no reload is left to exactly one if the new options differed from
\* data and to none if they equalled data.
C10_Reloads ==
    (changes > 0 /\ change.listeners >= 1) =>
        /\ change.reloads <= 1
        /\ Quiescent => change.reloads = (IF change.differs THEN 1 ELSE 0)

\* with three registrations, one change has been followed by one reload and
\* nothing is left to run
C10_Witness ==
    /\ changes > 0 /\ change.listeners >= 2 /\ change.differs
    /\ Quiescent /\ change.reloads = 1

\* every scheduled task runs, every worker-thread job of a setup ends, the
\* host carries every reload through
Fairness ==
    /\ WF_vars(ListenerRun)
    /\ WF_vars(ReloadUnload)
    /\ WF_vars(ReloadSetup)
    /\ WF_vars(SetupRefreshDone)
    /\ WF_vars(SetupFirmwareDone)
SpecFair == Spec /\ Fairness

\* C10 amended, with its progress: every listener task and every reload that
\* a change sets off is eventually done.
C10_Amended == []C10_Reloads /\ (~Quiescent ~> Quiescent)

====
